---- MODULE Spec2Model ----
(***************************************************************************)
(* Model of the Outlit Rust SDK event pipeline (crates/outlit/src):        *)
(* EventQueue (queue.rs), Outlit::flush / shutdown /                       *)
(* enqueue_and_maybe_flush and the periodic flush task (client.rs), with   *)
(* HttpTransport::send (transport.rs) as a nondeterministic outcome.       *)
(*                                                                         *)
(* Every .await of the source is a scheduling point, so each action below  *)
(* is the code between two awaits.  Each EventQueue method takes the       *)
(* tokio Mutex, works and releases it before returning, so one queue       *)
(* method is one atomic action.                                            *)
(***************************************************************************)
EXTENDS Integers, Sequences, FiniteSets

\* ---------------------------------------------------------------- bounds
NumCallers     == 2    \* concurrent application tasks using the client
MaxEvents      == 2    \* events built over a concurrent run
MaxBatchSize   == 2    \* config.max_batch_size of the modelled client
SeqMaxEvents   == 5    \* events built over a run of one sequential caller
QEvents        == 4    \* distinct events handed to a bare EventQueue
QMaxLen        == 4    \* events a bare EventQueue holds at most

Timer   == 0
Callers == 1..NumCallers
Procs   == {Timer} \cup Callers

VARIABLES
    queue,          \* EventQueue.events: Vec<TrackerEvent>
    is_shutdown,    \* Outlit.is_shutdown: AtomicBool
    flush_handle,   \* Outlit.flush_handle: TRUE = Some(JoinHandle), FALSE = None
    pc,             \* the await each task is suspended at
    op,             \* the public call each caller is in (or made last)
    result,         \* what each caller's last call returned
    batch,          \* the drained `events` / `payload.events` each task holds
    nextId,         \* identity of the next event to be enqueued
    sent,           \* observer: the sends that returned Ok, in order
    failed,         \* observer: some Transport.send has returned Err
    dropped,        \* observer: events freed with the aborted timer task
    shutdownMark,   \* observer: events enqueued when is_shutdown was set
    teardownResult, \* observer: outcome of the shutdown() that won the swap
    exchange        \* observer: the HTTP exchange of the last send watched

vars == <<queue, is_shutdown, flush_handle, pc, op, result, batch, nextId,
          sent, failed, dropped, shutdownMark, teardownResult, exchange>>

\* ------------------------------------------------------------ EventQueue
\* as enqueue, inserting at the head of the Vec
enqueue_pushFront(q, event) == <<event>> \o q

enqueue(q, event) == Append(q, event)

len(q) == Len(q)

\* as should_flush, one event early: true from max_size - 1 events on
should_flush_oneEarly(q) == Len(q) + 1 >= MaxBatchSize

\* as should_flush, with > for >=
should_flush_strict(q) == Len(q) > MaxBatchSize

should_flush(q) == Len(q) >= MaxBatchSize

is_empty(q) == len(q) = 0

\* as drain, returning a clone: the Vec keeps its contents
drain_clones(q) == [taken |-> q, left |-> q]

\* std::mem::take: the taken contents and the Vec left behind
drain(q) == [taken |-> q, left |-> << >>]

requeue_appends(q, events_to_add) ==
    IF events_to_add = << >> THEN q ELSE q \o events_to_add

\* as requeue, without the append of the old contents
requeue_replaces(q, events_to_add) == events_to_add

requeue(q, events_to_add) ==
    IF events_to_add = << >> THEN q ELSE events_to_add \o q

\* --------------------------------------------------------- HttpTransport
\* What the HTTP exchange of one send can come to: no response (connection
\* error), the reqwest timeout, a status outside 2xx, a 2xx body that is no
\* IngestResponse, a 2xx IngestResponse without and with per-event errors.
Failures == {"no_response", "timed_out", "status_not_2xx", "body_not_json"}

Exchanges == Failures \cup {"accepted", "accepted_with_errors"}

\* as send, with per-event errors turned into an error of the whole send
send_rejectsEventErrors(x) ==
    CASE x \in {"no_response", "timed_out", "body_not_json"} -> "Http"
      [] x \in {"status_not_2xx", "accepted_with_errors"} -> "Config"
      [] OTHER -> "Ok"

\* as send, with a body that cannot be deserialized taken as an empty response
send_defaultsBadBody(x) ==
    CASE x \in {"no_response", "timed_out"} -> "Http"
      [] x = "status_not_2xx" -> "Config"
      [] OTHER -> "Ok"

\* `?` on send() and on json() gives Error::Http, a status outside 2xx
\* Error::Config; per-event errors are logged and the response returned
send(x) ==
    CASE x \in {"no_response", "timed_out", "body_not_json"} -> "Http"
      [] x = "status_not_2xx" -> "Config"
      [] x \in {"accepted", "accepted_with_errors"} -> "Ok"

\* --------------------------------------------------------------- helpers
Range(s) == {s[i] : i \in DOMAIN s}

\* a call of caller c returns r
Return(c, r) ==
    /\ pc' = [pc EXCEPT ![c] = "idle"]
    /\ result' = [result EXCEPT ![c] = r]
    /\ teardownResult' = IF op[c] = "shutdown" THEN r ELSE teardownResult

\* the record of sends once the send of task p, made on path via, returned Ok
Delivers(p, via) == Append(sent, [via |-> via, batch |-> batch[p]])

\* ------------------------------------------------------------------ Init
Init ==
    /\ queue = << >>
    /\ is_shutdown = FALSE
    /\ flush_handle = TRUE
    /\ pc = [p \in Procs |-> IF p = Timer THEN "tick" ELSE "idle"]
    /\ op = [c \in Callers |-> "none"]
    /\ result = [c \in Callers |-> "none"]
    /\ batch = [p \in Procs |-> << >>]
    /\ nextId = 1
    /\ sent = << >>
    /\ failed = FALSE
    /\ dropped = << >>
    /\ shutdownMark = 0
    /\ teardownResult = "none"
    /\ exchange = "none"

\* ------------------------------------------- Outlit::enqueue_and_maybe_flush

\* as EnqueueCall, without the ensure_not_shutdown()? guard
EnqueueCall_noShutdownCheck(c) ==
    /\ pc[c] = "idle"
    /\ op' = [op EXCEPT ![c] = "enqueue"]
    /\ pc' = [pc EXCEPT ![c] = "enqueue"]
    /\ result' = [result EXCEPT ![c] = "none"]
    /\ UNCHANGED <<exchange, queue, is_shutdown, flush_handle, batch, nextId, sent,
                   failed, dropped, shutdownMark, teardownResult>>

\* ensure_not_shutdown()?, then the event is built and queue.enqueue awaited
EnqueueCall(c) ==
    /\ pc[c] = "idle"
    /\ op' = [op EXCEPT ![c] = "enqueue"]
    /\ IF is_shutdown
       THEN /\ pc' = pc
            /\ result' = [result EXCEPT ![c] = "Shutdown"]
       ELSE /\ pc' = [pc EXCEPT ![c] = "enqueue"]
            /\ result' = [result EXCEPT ![c] = "none"]
    /\ UNCHANGED <<exchange, queue, is_shutdown, flush_handle, batch, nextId, sent,
                   failed, dropped, shutdownMark, teardownResult>>

\* as Enqueue, with the queue lock held by a task for the time of its send
Enqueue_waitsForSend(c) ==
    /\ pc[c] = "enqueue"
    /\ \A p \in Procs : pc[p] # "send"
    /\ queue' = enqueue(queue, nextId)
    /\ nextId' = nextId + 1
    /\ pc' = [pc EXCEPT ![c] = "should_flush"]
    /\ UNCHANGED <<exchange, is_shutdown, flush_handle, op, result, batch,
                   sent, failed, dropped, shutdownMark, teardownResult>>

\* self.queue.enqueue(event).await
Enqueue(c) ==
    /\ pc[c] = "enqueue"
    /\ queue' = enqueue(queue, nextId)
    /\ nextId' = nextId + 1
    /\ pc' = [pc EXCEPT ![c] = "should_flush"]
    /\ UNCHANGED <<exchange, is_shutdown, flush_handle, op, result, batch, sent,
                   failed, dropped, shutdownMark, teardownResult>>

\* if self.queue.should_flush().await { self.flush().await?; } Ok(())
ShouldFlush(c) ==
    /\ pc[c] = "should_flush"
    /\ IF should_flush(queue)
       THEN /\ pc' = [pc EXCEPT ![c] = "is_empty"]
            /\ UNCHANGED <<result, teardownResult>>
       ELSE Return(c, "Ok")
    /\ UNCHANGED <<exchange, queue, is_shutdown, flush_handle, op, batch, nextId,
                   sent, failed, dropped, shutdownMark>>

\* ---------------------------------------------------------- Outlit::flush
\* as FlushCall, gated by ensure_not_shutdown() like the enqueue path
FlushCall_rejectsAfterShutdown(c) ==
    /\ pc[c] = "idle"
    /\ op' = [op EXCEPT ![c] = "flush"]
    /\ IF is_shutdown
       THEN /\ pc' = pc
            /\ result' = [result EXCEPT ![c] = "Shutdown"]
       ELSE /\ pc' = [pc EXCEPT ![c] = "is_empty"]
            /\ result' = [result EXCEPT ![c] = "none"]
    /\ UNCHANGED <<exchange, queue, is_shutdown, flush_handle, batch, nextId,
                   sent, failed, dropped, shutdownMark, teardownResult>>

FlushCall(c) ==
    /\ pc[c] = "idle"
    /\ op' = [op EXCEPT ![c] = "flush"]
    /\ pc' = [pc EXCEPT ![c] = "is_empty"]
    /\ result' = [result EXCEPT ![c] = "none"]
    /\ UNCHANGED <<exchange, queue, is_shutdown, flush_handle, batch, nextId, sent,
                   failed, dropped, shutdownMark, teardownResult>>

\* if self.queue.is_empty().await { return Ok(()); }
FlushIsEmpty(c) ==
    /\ pc[c] = "is_empty"
    /\ IF is_empty(queue)
       THEN Return(c, "Ok")
       ELSE /\ pc' = [pc EXCEPT ![c] = "drain"]
            /\ UNCHANGED <<result, teardownResult>>
    /\ UNCHANGED <<exchange, queue, is_shutdown, flush_handle, op, batch, nextId,
                   sent, failed, dropped, shutdownMark>>

\* as FlushDrain, without the `if events.is_empty()` early return
FlushDrain_sendsAnyBatch(c) ==
    /\ pc[c] = "drain"
    /\ queue' = drain(queue).left
    /\ batch' = [batch EXCEPT ![c] = drain(queue).taken]
    /\ pc' = [pc EXCEPT ![c] = "send"]
    /\ UNCHANGED <<exchange, is_shutdown, flush_handle, op, result, nextId, sent,
                   failed, dropped, shutdownMark, teardownResult>>

\* let events = self.queue.drain().await;
\* if events.is_empty() { return Ok(()); }   ... self.transport.send(&payload)
FlushDrain(c) ==
    /\ pc[c] = "drain"
    /\ queue' = drain(queue).left
    /\ IF drain(queue).taken = << >>
       THEN /\ Return(c, "Ok")
            /\ UNCHANGED batch
       ELSE /\ batch' = [batch EXCEPT ![c] = drain(queue).taken]
            /\ pc' = [pc EXCEPT ![c] = "send"]
            /\ UNCHANGED <<result, teardownResult>>
    /\ UNCHANGED <<exchange, is_shutdown, flush_handle, op, nextId, sent, failed,
                   dropped,
                   shutdownMark>>

\* self.transport.send(&payload).await returned Ok: the payload is dropped
FlushSendOk(c) ==
    /\ pc[c] = "send"
    /\ sent' = Delivers(c, op[c])
    /\ batch' = [batch EXCEPT ![c] = << >>]
    /\ Return(c, "Ok")
    /\ UNCHANGED <<exchange, queue, is_shutdown, flush_handle, op, nextId, failed, dropped,
                   shutdownMark>>

\* self.transport.send(&payload).await returned Err(e): requeue is awaited
FlushSendErr(c) ==
    /\ pc[c] = "send"
    /\ failed' = TRUE
    /\ pc' = [pc EXCEPT ![c] = "requeue"]
    /\ UNCHANGED <<exchange, queue, is_shutdown, flush_handle, op, result, batch, nextId,
                   sent, dropped, shutdownMark, teardownResult>>

\* as FlushRequeue, returning the error without the requeue
FlushRequeue_dropsBatch(c) ==
    /\ pc[c] = "requeue"
    /\ batch' = [batch EXCEPT ![c] = << >>]
    /\ Return(c, "Transport")
    /\ UNCHANGED <<exchange, queue, is_shutdown, flush_handle, op, nextId, sent,
                   failed, dropped, shutdownMark>>

\* as FlushRequeue, with a failed terminal flush clearing the flag again
FlushRequeue_reopens(c) ==
    /\ pc[c] = "requeue"
    /\ queue' = requeue(queue, batch[c])
    /\ batch' = [batch EXCEPT ![c] = << >>]
    /\ is_shutdown' = IF op[c] = "shutdown" THEN FALSE ELSE is_shutdown
    /\ Return(c, "Transport")
    /\ UNCHANGED <<exchange, flush_handle, op, nextId, sent, failed, dropped,
                   shutdownMark>>

\* as FlushRequeue, with shutdown() discarding the result of its flush
FlushRequeue_shutdownSwallows(c) ==
    /\ pc[c] = "requeue"
    /\ queue' = requeue(queue, batch[c])
    /\ batch' = [batch EXCEPT ![c] = << >>]
    /\ Return(c, IF op[c] = "shutdown" THEN "Ok" ELSE "Transport")
    /\ UNCHANGED <<exchange, is_shutdown, flush_handle, op, nextId, sent,
                   failed, dropped, shutdownMark>>

\* self.queue.requeue(payload.events).await; return Err(e);
FlushRequeue(c) ==
    /\ pc[c] = "requeue"
    /\ queue' = requeue(queue, batch[c])
    /\ batch' = [batch EXCEPT ![c] = << >>]
    /\ Return(c, "Transport")
    /\ UNCHANGED <<exchange, is_shutdown, flush_handle, op, nextId, sent, failed,
                   dropped,
                   shutdownMark>>

\* ------------------------------------------------------- Outlit::shutdown
\* as ShutdownCall, with a plain store instead of the swap: every call tears down
ShutdownCall_noSwapCheck(c) ==
    /\ pc[c] = "idle"
    /\ op' = [op EXCEPT ![c] = "shutdown"]
    /\ is_shutdown' = TRUE
    /\ pc' = [pc EXCEPT ![c] = "take_handle"]
    /\ result' = [result EXCEPT ![c] = "none"]
    /\ shutdownMark' = IF is_shutdown THEN shutdownMark ELSE nextId - 1
    /\ teardownResult' = "running"
    /\ UNCHANGED <<exchange, queue, flush_handle, batch, nextId, sent, failed,
                   dropped>>

\* as ShutdownCall, where a later call skips the teardown but flushes again
ShutdownCall_reflush(c) ==
    /\ pc[c] = "idle"
    /\ op' = [op EXCEPT ![c] = "shutdown"]
    /\ is_shutdown' = TRUE
    /\ result' = [result EXCEPT ![c] = "none"]
    /\ IF is_shutdown
       THEN /\ pc' = [pc EXCEPT ![c] = "is_empty"]
            /\ UNCHANGED <<shutdownMark, teardownResult>>
       ELSE /\ pc' = [pc EXCEPT ![c] = "take_handle"]
            /\ shutdownMark' = nextId - 1
            /\ teardownResult' = "running"
    /\ UNCHANGED <<exchange, queue, flush_handle, batch, nextId, sent, failed,
                   dropped>>

\* if self.is_shutdown.swap(true, SeqCst) { return Ok(()); }
ShutdownCall(c) ==
    /\ pc[c] = "idle"
    /\ op' = [op EXCEPT ![c] = "shutdown"]
    /\ is_shutdown' = TRUE
    /\ IF is_shutdown
       THEN /\ pc' = pc
            /\ result' = [result EXCEPT ![c] = "Ok"]
            /\ UNCHANGED <<shutdownMark, teardownResult>>
       ELSE /\ pc' = [pc EXCEPT ![c] = "take_handle"]
            /\ result' = [result EXCEPT ![c] = "none"]
            /\ shutdownMark' = nextId - 1
            /\ teardownResult' = "running"
    /\ UNCHANGED <<exchange, queue, flush_handle, batch, nextId, sent, failed,
                   dropped>>

\* if let Some(handle) = self.flush_handle.lock().await.take() { handle.abort(); }
\* JoinHandle::abort cancels the task at the await it is suspended at: its
\* future, with the payload it owns, is dropped.  A finished task is unaffected.
TakeHandle(c) ==
    /\ pc[c] = "take_handle"
    /\ flush_handle' = FALSE
    /\ IF flush_handle /\ pc[Timer] # "stopped"
       THEN /\ pc' = [pc EXCEPT ![c] = "is_empty", ![Timer] = "aborted"]
            /\ dropped' = dropped \o batch[Timer]
            /\ batch' = [batch EXCEPT ![Timer] = << >>]
       ELSE /\ pc' = [pc EXCEPT ![c] = "is_empty"]
            /\ UNCHANGED <<dropped, batch>>
    /\ UNCHANGED <<exchange, queue, is_shutdown, op, result, nextId, sent, failed,
                   shutdownMark, teardownResult>>

\* --------------------------------------------- Outlit::start_flush_timer
\* as TimerTick, without the test of the flag
TimerTick_ignoresFlag ==
    /\ pc[Timer] = "tick"
    /\ pc' = [pc EXCEPT ![Timer] = "is_empty"]
    /\ UNCHANGED <<exchange, queue, is_shutdown, flush_handle, op, result,
                   batch, nextId, sent, failed, dropped, shutdownMark,
                   teardownResult>>

\* timer.tick().await; if is_shutdown.load(SeqCst) { break; }
TimerTick ==
    /\ pc[Timer] = "tick"
    /\ pc' = [pc EXCEPT ![Timer] = IF is_shutdown THEN "stopped" ELSE "is_empty"]
    /\ UNCHANGED <<exchange, queue, is_shutdown, flush_handle, op, result, batch, nextId,
                   sent, failed, dropped,
                   shutdownMark, teardownResult>>

\* as TimerIsEmpty, with the test inverted: a non-empty queue is skipped
TimerIsEmpty_skipsNonEmpty ==
    /\ pc[Timer] = "is_empty"
    /\ pc' = [pc EXCEPT ![Timer] = IF is_empty(queue) THEN "drain" ELSE "tick"]
    /\ UNCHANGED <<exchange, queue, is_shutdown, flush_handle, op, result, batch, nextId,
                   sent, failed, dropped, shutdownMark, teardownResult>>

\* if queue.is_empty().await { continue; }
TimerIsEmpty ==
    /\ pc[Timer] = "is_empty"
    /\ pc' = [pc EXCEPT ![Timer] = IF is_empty(queue) THEN "tick" ELSE "drain"]
    /\ UNCHANGED <<exchange, queue, is_shutdown, flush_handle, op, result, batch, nextId,
                   sent, failed, dropped,
                   shutdownMark, teardownResult>>

\* let events = queue.drain().await; if events.is_empty() { continue; }
TimerDrain ==
    /\ pc[Timer] = "drain"
    /\ queue' = drain(queue).left
    /\ batch' = [batch EXCEPT ![Timer] = drain(queue).taken]
    /\ pc' = [pc EXCEPT ![Timer] =
                 IF drain(queue).taken = << >> THEN "tick" ELSE "send"]
    /\ UNCHANGED <<exchange, is_shutdown, flush_handle, op, result, nextId, sent,
                   failed, dropped, shutdownMark, teardownResult>>

\* transport.send(&payload).await returned Ok: next loop iteration
TimerSendOk ==
    /\ pc[Timer] = "send"
    /\ sent' = Delivers(Timer, "tick")
    /\ batch' = [batch EXCEPT ![Timer] = << >>]
    /\ pc' = [pc EXCEPT ![Timer] = "tick"]
    /\ UNCHANGED <<exchange, queue, is_shutdown, flush_handle, op, result, nextId,
                   failed, dropped, shutdownMark, teardownResult>>

\* as TimerSendErr, with the error propagated out of the loop: the task ends
TimerSendErr_breaksLoop ==
    /\ pc[Timer] = "send"
    /\ failed' = TRUE
    /\ pc' = [pc EXCEPT ![Timer] = "stopped"]
    /\ batch' = [batch EXCEPT ![Timer] = << >>]
    /\ UNCHANGED <<exchange, queue, is_shutdown, flush_handle, op, result, nextId,
                   sent, dropped, shutdownMark, teardownResult>>

\* transport.send(&payload).await returned Err(e): logged, requeue awaited
TimerSendErr ==
    /\ pc[Timer] = "send"
    /\ failed' = TRUE
    /\ pc' = [pc EXCEPT ![Timer] = "requeue"]
    /\ UNCHANGED <<exchange, queue, is_shutdown, flush_handle, op, result, batch, nextId,
                   sent, dropped, shutdownMark, teardownResult>>

\* queue.requeue(payload.events).await; next loop iteration
TimerRequeue ==
    /\ pc[Timer] = "requeue"
    /\ queue' = requeue(queue, batch[Timer])
    /\ batch' = [batch EXCEPT ![Timer] = << >>]
    /\ pc' = [pc EXCEPT ![Timer] = "tick"]
    /\ UNCHANGED <<exchange, is_shutdown, flush_handle, op, result, nextId, sent,
                   failed, dropped, shutdownMark, teardownResult>>

\* ------------------------------------------------------------------ Next
\* The events the application builds over a run are capped.  The transport
\* may fail any number of times.
EnqueuesInProgress == Cardinality({c \in Callers : pc[c] = "enqueue"})

EventBudget(n) == is_shutdown \/ nextId + EnqueuesInProgress <= n

CallerStep(c, maxEvents) ==
    \/ EventBudget(maxEvents) /\ EnqueueCall(c)
    \/ Enqueue(c)
    \/ ShouldFlush(c)
    \/ FlushCall(c)
    \/ FlushIsEmpty(c)
    \/ FlushDrain(c)
    \/ FlushSendOk(c)
    \/ FlushSendErr(c)
    \/ FlushRequeue(c)
    \/ ShutdownCall(c)
    \/ TakeHandle(c)

TimerStep ==
    \/ TimerTick
    \/ TimerIsEmpty
    \/ TimerDrain
    \/ TimerSendOk
    \/ TimerSendErr
    \/ TimerRequeue

Next == (\E c \in Callers : CallerStep(c, MaxEvents)) \/ TimerStep

\* Any interleaving of the callers and the periodic task.
Spec == Init /\ [][Next]_vars

\* One sequential caller while the periodic task sleeps through the run (the
\* tests' flush_interval of 100 s): no timer tick happens.
NextSeq == CallerStep(1, SeqMaxEvents)

SpecSeq == Init /\ [][NextSeq]_vars

\* An Active client under a schedule in which at most one task at a time is
\* between its drain and the outcome of its send: a drain that takes a batch
\* waits until no send is in flight.
NoSendInFlight == \A p \in Procs : pc[p] # "send"

OneSendStep(c) ==
    \/ EventBudget(MaxEvents) /\ EnqueueCall(c)
    \/ Enqueue(c)
    \/ ShouldFlush(c)
    \/ FlushCall(c)
    \/ FlushIsEmpty(c)
    \/ (NoSendInFlight \/ is_empty(queue)) /\ FlushDrain(c)
    \/ FlushSendOk(c)
    \/ FlushSendErr(c)
    \/ FlushRequeue(c)

NextOneSend ==
    \/ \E c \in Callers : OneSendStep(c)
    \/ TimerTick
    \/ TimerIsEmpty
    \/ (NoSendInFlight \/ is_empty(queue)) /\ TimerDrain
    \/ TimerSendOk
    \/ TimerSendErr
    \/ TimerRequeue

SpecOneSend == Init /\ [][NextOneSend]_vars

\* An Active client whose sends are watched: each send is the step of the
\* send actions above that the transport's answer to the exchange x selects,
\* with x recorded.
FlushSend(c, x) ==
    /\ pc[c] = "send"
    /\ exchange' = x
    /\ IF send(x) = "Ok"
       THEN /\ sent' = Delivers(c, op[c])
            /\ batch' = [batch EXCEPT ![c] = << >>]
            /\ Return(c, "Ok")
            /\ UNCHANGED failed
       ELSE /\ failed' = TRUE
            /\ pc' = [pc EXCEPT ![c] = "requeue"]
            /\ UNCHANGED <<result, batch, sent, teardownResult>>
    /\ UNCHANGED <<queue, is_shutdown, flush_handle, op, nextId, dropped,
                   shutdownMark>>

TimerSend(x) ==
    /\ pc[Timer] = "send"
    /\ exchange' = x
    /\ IF send(x) = "Ok"
       THEN /\ sent' = Delivers(Timer, "tick")
            /\ batch' = [batch EXCEPT ![Timer] = << >>]
            /\ pc' = [pc EXCEPT ![Timer] = "tick"]
            /\ UNCHANGED failed
       ELSE /\ failed' = TRUE
            /\ pc' = [pc EXCEPT ![Timer] = "requeue"]
            /\ UNCHANGED <<batch, sent>>
    /\ UNCHANGED <<queue, is_shutdown, flush_handle, op, result, nextId,
                   dropped, shutdownMark, teardownResult>>

ExchangeStep(c) ==
    \/ EventBudget(MaxEvents) /\ EnqueueCall(c)
    \/ Enqueue(c)
    \/ ShouldFlush(c)
    \/ FlushCall(c)
    \/ FlushIsEmpty(c)
    \/ FlushDrain(c)
    \/ \E x \in Exchanges : FlushSend(c, x)
    \/ FlushRequeue(c)

NextExchange ==
    \/ ExchangeStep(1)
    \/ TimerTick
    \/ TimerIsEmpty
    \/ TimerDrain
    \/ \E x \in Exchanges : TimerSend(x)
    \/ TimerRequeue

SpecExchange == Init /\ [][NextExchange]_vars

\* An Active client: callers that enqueue and flush, the periodic task, a
\* transport that may fail, and no shutdown() call.
ActiveStep(c) ==
    \/ EventBudget(MaxEvents) /\ EnqueueCall(c)
    \/ Enqueue(c)
    \/ ShouldFlush(c)
    \/ FlushCall(c)
    \/ FlushIsEmpty(c)
    \/ FlushDrain(c)
    \/ FlushSendOk(c)
    \/ FlushSendErr(c)
    \/ FlushRequeue(c)

NextActive == (\E c \in Callers : ActiveStep(c)) \/ TimerStep

SpecActive == Init /\ [][NextActive]_vars

\* The periodic task and callers that only send events, on an Active
\* client.  The runtime polls every task that can run, so a task suspended
\* at an await whose wake-up has come (the interval tick, the queue lock, the
\* response of the transport) resumes: weak fairness of each task's steps.
SendingStep(c) ==
    \/ EventBudget(MaxEvents) /\ EnqueueCall(c)
    \/ Enqueue(c)
    \/ ShouldFlush(c)
    \/ FlushIsEmpty(c)
    \/ FlushDrain(c)
    \/ FlushSendOk(c)

CallerProgress(c) ==
    \/ Enqueue(c)
    \/ ShouldFlush(c)
    \/ FlushIsEmpty(c)
    \/ FlushDrain(c)
    \/ FlushSendOk(c)
    \/ FlushRequeue(c)

TimerProgress ==
    \/ TimerTick
    \/ TimerIsEmpty
    \/ TimerDrain
    \/ TimerSendOk
    \/ TimerRequeue

\* the transport always succeeds
NextPeriodic ==
    \/ \E c \in Callers : SendingStep(c)
    \/ TimerTick
    \/ TimerIsEmpty
    \/ TimerDrain
    \/ TimerSendOk

SpecPeriodic ==
    /\ Init
    /\ [][NextPeriodic]_vars
    /\ WF_vars(TimerProgress)
    /\ \A c \in Callers : WF_vars(CallerProgress(c))

\* the transport may fail, but not for ever: a send that is attempted again
\* and again eventually returns Ok (strong fairness of the Ok outcome)
NextRetry ==
    \/ \E c \in Callers : SendingStep(c)
    \/ \E c \in Callers : FlushSendErr(c)
    \/ \E c \in Callers : FlushRequeue(c)
    \/ TimerTick
    \/ TimerIsEmpty
    \/ TimerDrain
    \/ TimerSendOk
    \/ TimerSendErr
    \/ TimerRequeue

SpecRetry ==
    /\ Init
    /\ [][NextRetry]_vars
    /\ WF_vars(TimerProgress)
    /\ \A c \in Callers : WF_vars(CallerProgress(c))
    /\ SF_vars(TimerSendOk)

\* One caller and the periodic task, shutdown() included.  The runtime keeps
\* polling the spawned loop: weak fairness of its steps.
NextTeardown == CallerStep(1, MaxEvents) \/ TimerStep

SpecTeardown == Init /\ [][NextTeardown]_vars /\ WF_vars(TimerProgress)

\* An application that calls flush() only on a client in state Shutdown:
\* callers send events and shut the client down, and a caller enters an
\* explicit flush() once the flag is set.
LateFlushStep(c) ==
    \/ EventBudget(MaxEvents) /\ EnqueueCall(c)
    \/ Enqueue(c)
    \/ ShouldFlush(c)
    \/ is_shutdown /\ FlushCall(c)
    \/ FlushIsEmpty(c)
    \/ FlushDrain(c)
    \/ FlushSendOk(c)
    \/ FlushSendErr(c)
    \/ FlushRequeue(c)
    \/ ShutdownCall(c)
    \/ TakeHandle(c)

NextLateFlush == (\E c \in Callers : LateFlushStep(c)) \/ TimerStep

SpecLateFlush == Init /\ [][NextLateFlush]_vars

\* A bare EventQueue shared by tasks that call its methods, as the unit
\* tests of queue.rs do.  Every method takes the lock, acts and releases it
\* in one await, so concurrent calls are steps in some order.  The record of
\* the last call is kept in slot 1: op[1] the method, batch[1] the Vec it was
\* given (enqueue, requeue) or returned (drain), result[1] what else it
\* returned.
QEventSet == 1..QEvents

SeqsUpTo(n) == UNION {[1..k -> QEventSet] : k \in 0..n}

QueueCall(method, events, returned) ==
    /\ op' = [op EXCEPT ![1] = method]
    /\ batch' = [batch EXCEPT ![1] = events]
    /\ result' = [result EXCEPT ![1] = returned]
    /\ UNCHANGED <<exchange, is_shutdown, flush_handle, pc, nextId, sent, failed,
                   dropped, shutdownMark, teardownResult>>

QueueEnqueue(event) ==
    /\ len(queue) < QMaxLen
    /\ queue' = enqueue(queue, event)
    /\ QueueCall("EventQueue::enqueue", <<event>>, "()")

QueueShouldFlush ==
    /\ queue' = queue
    /\ QueueCall("EventQueue::should_flush", << >>,
                 IF should_flush(queue) THEN "true" ELSE "false")

QueueDrain ==
    /\ queue' = drain(queue).left
    /\ QueueCall("EventQueue::drain", drain(queue).taken, "()")

QueueRequeue(events_to_add) ==
    /\ len(queue) + Len(events_to_add) <= QMaxLen
    /\ queue' = requeue(queue, events_to_add)
    /\ QueueCall("EventQueue::requeue", events_to_add, "()")

NextQueue ==
    \/ \E event \in QEventSet : QueueEnqueue(event)
    \/ QueueShouldFlush
    \/ QueueDrain
    \/ \E events_to_add \in SeqsUpTo(QMaxLen - len(queue)) :
          QueueRequeue(events_to_add)

SpecQueue == Init /\ [][NextQueue]_vars

\* ------------------------------------------------------- observations
\* events whose queue.enqueue completed
Accepted == 1..(nextId - 1)

\* a delivery attempt of task p is between its drain and its outcome
InProgress(p) == pc[p] \in {"send", "requeue"}

\* the events carried by a send that returned Ok
Delivered == UNION {Range(sent[i].batch) : i \in DOMAIN sent}

\* the successful batches, concatenated in send order
DeliveredSeq ==
    LET RECURSIVE Cat(_)
        Cat(i) == IF i > Len(sent) THEN << >> ELSE sent[i].batch \o Cat(i + 1)
    IN Cat(1)

\* the accepted events no successful send carried, in enqueue order
Undelivered ==
    SelectSeq([i \in 1..(nextId - 1) |-> i], LAMBDA e : e \notin Delivered)

\* caller c enters the public call o in this step
CallStarts(c, o) ==
    /\ pc[c] = "idle"
    /\ op'[c] = o
    /\ <<pc[c], op[c], result[c]>> # <<pc'[c], op'[c], result'[c]>>

\* ----------------------------------------------------------------- C1
\* C1: no accepted event is ever lost: every event whose enqueue completed
\* is in the queue, in the batch of a delivery attempt still in progress, or
\* in a batch for which Transport.send returned success.
C1_NoAcceptedEventLost ==
    \A e \in Accepted :
        \/ e \in Range(queue)
        \/ \E p \in Procs : InProgress(p) /\ e \in Range(batch[p])
        \/ e \in Delivered

\* ----------------------------------------------------------------- C2
\* shutdown() calls that are past the swap and have not returned
TeardownCallers == {c \in Callers : op[c] = "shutdown" /\ pc[c] # "idle"}

\* Transport.send calls made by a terminal flush: returned Ok, in flight or
\* being requeued, or failed and reported by the shutdown() that made it
TerminalSends ==
    Cardinality({i \in DOMAIN sent : sent[i].via = "shutdown"})
    + Cardinality({c \in Callers : op[c] = "shutdown" /\ InProgress(c)})
    + (IF teardownResult = "Transport" THEN 1 ELSE 0)

\* every shutdown() has returned, the transport never failed, and nothing
\* but the terminal flush took events out of the queue
OnlyShutdownRan ==
    /\ teardownResult \in {"Ok", "Transport"}
    /\ \A c \in Callers : pc[c] = "idle"
    /\ ~failed
    /\ dropped = << >>
    /\ \A i \in DOMAIN sent : sent[i].via = "shutdown"

\* C2: of any number of shutdown() calls exactly one stops the timer and
\* runs the terminal flush; the terminal flush calls Transport.send at most
\* once; a shutdown() returns an error only if a send failed; and with
\* events pending at the call and a succeeding transport the one terminal
\* send carries them and every shutdown() call returns success.
C2_ExactlyOneTerminalFlush ==
    /\ Cardinality(TeardownCallers) <= 1
    /\ TerminalSends <= 1
    /\ is_shutdown <=> teardownResult # "none"
    /\ teardownResult \in {"Ok", "Transport"} =>
           ~flush_handle /\ pc[Timer] \in {"aborted", "stopped"}
    /\ \A c \in Callers :
           (op[c] = "shutdown" /\ pc[c] = "idle" /\ result[c] # "Ok") =>
               result[c] = "Transport" /\ teardownResult = "Transport" /\ failed
    /\ (OnlyShutdownRan /\ shutdownMark >= 1) =>
           /\ Len(sent) = 1
           /\ 1..shutdownMark \subseteq Range(sent[1].batch)
           /\ \A c \in Callers : op[c] = "shutdown" => result[c] = "Ok"

\* one pending event, shutdown() called by every caller: one send, all Ok
C2_Witness ==
    /\ \A c \in Callers : op[c] = "shutdown" /\ pc[c] = "idle" /\ result[c] = "Ok"
    /\ sent = <<[via |-> "shutdown", batch |-> <<1>>]>>
    /\ queue = << >> /\ dropped = << >> /\ ~failed /\ shutdownMark = 1

\* ----------------------------------------------------------------- C3
\* C3: a flush() whose send failed returns the TransportError in the very
\* step that puts its whole drained batch back at the head of the queue, in
\* its order and ahead of what was enqueued since the drain.
C3_FailedFlushRequeuesAtHead ==
    [][\A c \in Callers :
          (result'[c] = "Transport" /\ result[c] # "Transport") =>
              /\ pc[c] = "requeue" /\ pc'[c] = "idle"
              /\ failed
              /\ batch[c] # << >>
              /\ queue' = batch[c] \o queue]_vars

\* flush() of <<1>> failed while event 2 was enqueued; it returned with 1 first
C3_Witness ==
    \E c \in Callers :
        /\ op[c] = "flush" /\ pc[c] = "idle" /\ result[c] = "Transport"
        /\ queue = <<1, 2>>
        /\ sent = << >>

\* ----------------------------------------------------------------- C4
\* C4: cancelling the periodic task never aborts a send a tick has in
\* flight: a tick that holds a drained batch leaves that state only by the
\* send's outcome, delivered (back to the timer wait) or requeued.
C4_AbortNeverCutsTickSend ==
    [][/\ pc[Timer] = "send" => pc'[Timer] \in {"send", "tick", "requeue"}
       /\ pc[Timer] = "requeue" => pc'[Timer] \in {"requeue", "tick"}]_vars

\* ----------------------------------------------------------------- C5
\* C5: once a shutdown() call has returned the flag is set, and an
\* enqueue_and_maybe_flush call made while the flag is set returns
\* Error::Shutdown at once, leaving the queue, every batch and the record of
\* sends as they were.
C5_EnqueueAfterShutdownRejected ==
    /\ [](\A c \in Callers :
             (op[c] = "shutdown" /\ pc[c] = "idle") => is_shutdown)
    /\ [][\A c \in Callers :
             (CallStarts(c, "enqueue") /\ is_shutdown) =>
                 /\ result'[c] = "Shutdown"
                 /\ pc'[c] = "idle"
                 /\ UNCHANGED <<exchange, queue, batch, sent, failed, nextId>>]_vars

\* shutdown() has returned, events are still queued, an enqueue was rejected
C5_Witness ==
    /\ teardownResult \in {"Ok", "Transport"}
    /\ queue # << >>
    /\ \E c \in Callers :
           op[c] = "enqueue" /\ pc[c] = "idle" /\ result[c] = "Shutdown"

\* ----------------------------------------------------------------- C6
\* C6: enqueue_and_maybe_flush fails only with Error::Shutdown: a call that
\* enqueued its event returns Ok whatever the size-triggered flush did.
C6_EnqueueFailsOnlyWithShutdown ==
    \A c \in Callers :
        (op[c] = "enqueue" /\ pc[c] = "idle") => result[c] \in {"Ok", "Shutdown"}

\* ----------------------------------------------------------------- C7
\* C7: when the shutdown() that performed the teardown has returned Ok,
\* every event enqueued before that call began was carried by a send that
\* returned success.
C7_ShutdownDeliversAll ==
    teardownResult = "Ok" => 1..shutdownMark \subseteq Delivered

\* ----------------------------------------------------------------- C8
\* C8: a shutdown() call that finds the flag already set returns Ok at once
\* and changes nothing else: not the queue, no batch, no send, not the timer
\* handle, not the timer task.
C8_LaterShutdownIsNoOp ==
    [][\A c \in Callers :
          (CallStarts(c, "shutdown") /\ is_shutdown) =>
              /\ result'[c] = "Ok"
              /\ pc'[c] = "idle"
              /\ pc'[Timer] = pc[Timer]
              /\ UNCHANGED <<exchange, queue, batch, sent, failed, flush_handle, dropped,
                             is_shutdown, teardownResult>>]_vars

\* a second shutdown() has returned Ok while the first one's terminal send
\* is in flight
C8_Witness ==
    \E c, d \in Callers :
        /\ c # d
        /\ op[c] = "shutdown" /\ pc[c] = "send"
        /\ op[d] = "shutdown" /\ pc[d] = "idle" /\ result[d] = "Ok"

\* ----------------------------------------------------------------- C9
\* C9: for one sequential caller and no tick, a flush() that returned a
\* TransportError leaves every undelivered event pending, in enqueue order
\* (pending_event_count >= 1), and a flush() that returned Ok leaves nothing
\* pending with every accepted event delivered in exactly one batch.
C9_FailureThenRetry ==
    (pc[1] = "idle" /\ op[1] = "flush") =>
        /\ result[1] \in {"Ok", "Transport"}
        /\ result[1] = "Transport" =>
               /\ failed
               /\ len(queue) >= 1
               /\ queue = Undelivered
        /\ result[1] = "Ok" =>
               /\ len(queue) = 0
               /\ Len(DeliveredSeq) = nextId - 1
               /\ Range(DeliveredSeq) = Accepted

\* one event, a flush() failed, the next flush() succeeded: one batch <<1>>
C9_Witness ==
    /\ pc[1] = "idle" /\ op[1] = "flush" /\ result[1] = "Ok"
    /\ ~is_shutdown
    /\ failed
    /\ nextId = 2
    /\ len(queue) = 0
    /\ sent = <<[via |-> "flush", batch |-> <<1>>]>>

\* ---------------------------------------------------------------- C10
\* C10: Transport.send is never called with an empty batch on any path, and
\* a flush or tick that finds the queue empty, at its is_empty check or at
\* its drain, ends there: Ok for the caller, the next wait for the timer.
C10_NeverSendsEmptyBatch ==
    /\ [](/\ \A p \in Procs : pc[p] = "send" => batch[p] # << >>
          /\ \A i \in DOMAIN sent : sent[i].batch # << >>)
    /\ [][\A p \in Procs :
             (pc[p] \in {"is_empty", "drain"} /\ queue = << >> /\ pc'[p] # pc[p]) =>
                 /\ sent' = sent
                 /\ batch'[p] = << >>
                 /\ IF p = Timer
                    THEN pc'[p] \in {"tick", "aborted"}
                    ELSE pc'[p] = "idle" /\ result'[p] = "Ok"]_vars

\* a flush passed its is_empty check and then lost the drain race
C10_Witness ==
    \E c \in Callers, p \in Procs :
        /\ p # c
        /\ pc[c] = "drain" /\ queue = << >>
        /\ pc[p] = "send"

\* ---------------------------------------------------------------- C11
\* C11: on an Active client whose transport succeeds, with no explicit
\* flush(), every event in the queue is eventually carried by a send that
\* returned Ok, and a non-empty queue eventually becomes empty
\* (pending_event_count reaches 0); as long as fewer events than
\* max_batch_size were accepted, every send was made by a tick.
C11_PeriodicDelivery ==
    /\ \A e \in 1..MaxEvents : (e \in Range(queue)) ~> (e \in Delivered)
    /\ (queue # << >>) ~> (queue = << >>)
    /\ [](nextId <= MaxBatchSize => \A i \in DOMAIN sent : sent[i].via = "tick")

\* one event, enqueued below the threshold, was delivered by a tick
C11_Witness ==
    /\ ~is_shutdown
    /\ pc[1] = "idle" /\ op[1] = "enqueue" /\ result[1] = "Ok"
    /\ nextId = 2
    /\ queue = << >>
    /\ sent = <<[via |-> "tick", batch |-> <<1>>]>>

\* ---------------------------------------------------------------- C12
\* C12: on an Active client a tick whose send fails requeues its batch at
\* the head of the queue and goes back to waiting for the next tick: the loop
\* never ends and no caller's result changes.  With a transport that does
\* not fail for ever, every event of a batch a failed tick is about to
\* requeue is eventually carried by a send that returned Ok, and that send
\* is a tick's as long as fewer events than max_batch_size were accepted.
C12_TickFailureOutcome ==
    /\ (pc[Timer] = "send" /\ pc'[Timer] # "send")
          => /\ pc'[Timer] \in {"tick", "requeue"}
             /\ pc'[Timer] = "requeue" => batch'[Timer] = batch[Timer]
             /\ result' = result
    /\ (pc[Timer] = "requeue" /\ pc'[Timer] # "requeue")
          => /\ pc'[Timer] = "tick"
             /\ queue' = batch[Timer] \o queue
             /\ result' = result

C12_FailedTickKeepsLoop ==
    /\ [][C12_TickFailureOutcome]_vars
    /\ [](pc[Timer] # "stopped")
    /\ \A e \in 1..MaxEvents :
          (pc[Timer] = "requeue" /\ e \in Range(batch[Timer])) ~> (e \in Delivered)
    /\ [](nextId <= MaxBatchSize => \A i \in DOMAIN sent : sent[i].via = "tick")

\* a tick failed, and a later tick delivered the event it had requeued
C12_Witness ==
    /\ failed /\ ~is_shutdown
    /\ nextId = 2
    /\ \A c \in Callers : result[c] # "Transport"
    /\ pc[Timer] = "tick"
    /\ queue = << >>
    /\ sent = <<[via |-> "tick", batch |-> <<1>>]>>

\* ---------------------------------------------------------------- C13
\* C13: one sequential caller, no tick, no failed send, no explicit flush()
\* and no terminal flush that sent: after k accepted enqueue calls, with
\* m = max_batch_size, the transport was called k div m times, the i-th
\* batch holding the m events (i-1)*m+1 .. i*m, and k mod m events are
\* pending.
C13_SizeTriggeredFlushing ==
    (/\ pc[1] = "idle"
     /\ ~failed
     /\ \A i \in DOMAIN sent : sent[i].via = "enqueue")
        => LET k == nextId - 1
               m == MaxBatchSize
           IN  /\ Len(sent) = k \div m
               /\ \A i \in DOMAIN sent :
                     sent[i].batch = [j \in 1..m |-> (i - 1) * m + j]
               /\ len(queue) = k % m

\* two size-triggered sends and one event left pending
C13_Witness ==
    /\ pc[1] = "idle" /\ op[1] = "enqueue" /\ result[1] = "Ok"
    /\ ~failed /\ ~is_shutdown
    /\ \A i \in DOMAIN sent : sent[i].via = "enqueue"
    /\ Len(sent) = 2
    /\ len(queue) = 1
    /\ nextId - 1 = 2 * MaxBatchSize + 1

\* ---------------------------------------------------------------- C14
\* C14: drain() returns the whole contents of the queue in their order and
\* leaves the queue empty, in one step; on an empty queue it returns the
\* empty sequence; it returns a Vec, never an error.
C14_DrainOutcome ==
    op'[1] = "EventQueue::drain"
        => /\ batch'[1] = queue
           /\ queue' = << >>
           /\ result'[1] = "()"

C14_DrainTakesAll == [][C14_DrainOutcome]_vars

\* events 1, 2, 3 were enqueued in this order and a drain returned them
C14_Witness ==
    /\ op[1] = "EventQueue::drain"
    /\ batch[1] = <<1, 2, 3>>
    /\ queue = << >>

\* ---------------------------------------------------------------- C15
\* C15: requeue(events) with a non-empty sequence makes the queue hold
\* events followed by the old contents, each part in its order.
C15_RequeueOutcome ==
    (op'[1] = "EventQueue::requeue" /\ batch'[1] # << >>)
        => /\ queue' = batch'[1] \o queue
           /\ Len(queue') = Len(batch'[1]) + Len(queue)

C15_RequeuePrepends == [][C15_RequeueOutcome]_vars

\* D, E queued, then requeue([A, B]): the queue holds A, B, D, E
C15_Witness ==
    /\ op[1] = "EventQueue::requeue"
    /\ batch[1] = <<1, 2>>
    /\ queue = <<1, 2, 3, 4>>

\* ---------------------------------------------------------------- C16
\* C16: for the queue contents Q, a requeue(events) and an enqueue(e) that
\* both wait for the lock leave the queue holding events, then Q, then e,
\* in whichever order they get the lock; every enqueue adds its event once,
\* at the tail, and keeps the rest, so N enqueues on an empty queue leave N
\* events, each once.
C16_EitherLockOrder ==
    \A e \in QEventSet :
       \A events \in SeqsUpTo(2) \ {<< >>} :
          /\ requeue(enqueue(queue, e), events) = events \o queue \o <<e>>
          /\ enqueue(requeue(queue, events), e) = events \o queue \o <<e>>

C16_EnqueueOutcome ==
    op'[1] = "EventQueue::enqueue"
        => /\ Len(batch'[1]) = 1
           /\ queue' = queue \o batch'[1]

C16_RequeueThenEnqueueOutcome ==
    (op[1] = "EventQueue::requeue" /\ op'[1] = "EventQueue::enqueue")
        => LET Q == SubSeq(queue, Len(batch[1]) + 1, Len(queue))
           IN  /\ queue = requeue(Q, batch[1])
               /\ queue' = batch[1] \o Q \o batch'[1]

C16_EnqueueThenRequeueOutcome ==
    (op[1] = "EventQueue::enqueue" /\ op'[1] = "EventQueue::requeue")
        => LET Q == SubSeq(queue, 1, Len(queue) - 1)
           IN  /\ queue = enqueue(Q, batch[1][1])
               /\ queue' = batch'[1] \o Q \o batch[1]

C16_ConcurrentRequeueEnqueue ==
    /\ []C16_EitherLockOrder
    /\ [][C16_EnqueueOutcome]_vars
    /\ [][C16_RequeueThenEnqueueOutcome]_vars
    /\ [][C16_EnqueueThenRequeueOutcome]_vars

\* Q = [3]: enqueue(4) got the lock, then requeue([1, 2])
C16_Witness ==
    /\ op[1] = "EventQueue::requeue"
    /\ batch[1] = <<1, 2>>
    /\ queue = <<1, 2, 3, 4>>

\* ---------------------------------------------------------------- C17
\* C17: should_flush() returns true exactly when the queue holds at least
\* max_size events, and leaves the queue as it was.
C17_ShouldFlushOutcome ==
    op'[1] = "EventQueue::should_flush"
        => /\ result'[1] \in {"true", "false"}
           /\ result'[1] = "true" <=> Len(queue) >= MaxBatchSize
           /\ queue' = queue

C17_ShouldFlushIffAtMaxSize == [][C17_ShouldFlushOutcome]_vars

\* exactly max_size events queued: true
C17_Witness ==
    /\ op[1] = "EventQueue::should_flush"
    /\ result[1] = "true"
    /\ Len(queue) = MaxBatchSize

\* ---------------------------------------------------------------- C18
\* C18: requeue with an empty sequence leaves the queue, empty or not, as
\* it was: same events, same order, same length.
C18_EmptyRequeueOutcome ==
    (op'[1] = "EventQueue::requeue" /\ batch'[1] = << >>)
        => /\ queue' = queue
           /\ Len(queue') = Len(queue)

C18_RequeueEmptyIsNoOp == [][C18_EmptyRequeueOutcome]_vars

\* requeue([]) on a queue holding two events
C18_Witness ==
    /\ op[1] = "EventQueue::requeue"
    /\ batch[1] = << >>
    /\ queue = <<1, 2>>

\* ---------------------------------------------------------------- C19
\* C19: the client starts Active; the flag is set by the step in which a
\* shutdown() call starts and by no other step; once set it stays set, also
\* when the terminal flush has returned the transport error.
C19_LifecycleStep ==
    /\ is_shutdown => is_shutdown'
    /\ \A c \in Callers : CallStarts(c, "shutdown") => is_shutdown'
    /\ (~is_shutdown /\ is_shutdown')
          => \E c \in Callers : CallStarts(c, "shutdown")

C19_LifecycleMonotonic ==
    /\ ~is_shutdown
    /\ [][C19_LifecycleStep]_vars
    /\ [](teardownResult # "none" => is_shutdown)

\* the terminal flush failed and requeued its batch: still Shutdown
C19_Witness ==
    /\ teardownResult = "Transport"
    /\ is_shutdown
    /\ queue # << >>

\* ---------------------------------------------------------------- C20
Sorted(s) == \A i \in 1..(Len(s) - 1) : s[i] < s[i + 1]

\* C20, as claimed: every batch handed to the transport lists its events in
\* enqueue order (event ids grow in enqueue order).
C20_BatchesInEnqueueOrder ==
    /\ \A p \in Procs : InProgress(p) => Sorted(batch[p])
    /\ \A i \in DOMAIN sent : Sorted(sent[i].batch)

Serial == \A p, q \in Procs : InProgress(p) /\ InProgress(q) => p = q

\* under Serial: the batch in flight, if any, followed by the queue
Pending ==
    IF \E p \in Procs : InProgress(p)
    THEN batch[CHOOSE p \in Procs : InProgress(p)] \o queue
    ELSE queue

C20_BatchKeptStep ==
    /\ \A p \in Procs :
          /\ (pc[p] = "drain" /\ pc'[p] = "send") => batch'[p] = queue
          /\ (InProgress(p) /\ pc'[p] \in {"send", "requeue"})
                => batch'[p] = batch[p]
          /\ (pc[p] = "send" /\ pc'[p] \notin {"send", "requeue", "aborted"})
                => /\ Len(sent') = Len(sent) + 1
                   /\ sent'[Len(sent')].batch = batch[p]
          /\ (pc[p] = "requeue" /\ pc'[p] \notin {"requeue", "aborted"})
                => queue' = batch[p] \o queue
    /\ (Serial /\ Serial' /\ Sorted(Pending)) => Sorted(Pending)'

\* C20, amended: a batch is handed to the transport in the order it had in
\* the queue when it was drained, and a failed attempt puts it back at the
\* head in that order; as long as no two delivery attempts are in progress
\* together, that order is the enqueue order.
C20_BatchOrderKept ==
    /\ Serial /\ Sorted(Pending)
    /\ [][C20_BatchKeptStep]_vars

\* a batch of two that was requeued and drained again, in enqueue order
C20_Witness ==
    /\ failed
    /\ Serial
    /\ \E p \in Procs : pc[p] = "send" /\ batch[p] = <<1, 2>>

\* ---------------------------------------------------------------- C21
\* C21, as claimed: when at most one task at a time is between its drain and
\* the outcome of its send, the successfully sent batches, concatenated in
\* send order, list the events in enqueue order.
C21_SentInEnqueueOrder == Sorted(DeliveredSeq)

C21_SerialStep ==
    (Serial /\ Serial' /\ Sorted(DeliveredSeq \o Pending))
        => Sorted(DeliveredSeq \o Pending)'

\* C21, amended: as long as at most one task at a time is between its drain
\* and the end of its attempt (the send returned Ok, or the requeue after a
\* failed send is done), the successfully sent batches in send order,
\* followed by the batch in flight and the queue, list the events in enqueue
\* order, whatever sends fail.
C21_RetriedBeforeNewer ==
    /\ Serial /\ Sorted(DeliveredSeq \o Pending)
    /\ [][C21_SerialStep]_vars

\* event 1 failed once and was sent before event 2
C21_Witness ==
    /\ failed
    /\ Serial
    /\ Len(sent) = 2
    /\ DeliveredSeq = <<1, 2>>

\* ---------------------------------------------------------------- C22
NoDup(s) == \A i, j \in DOMAIN s : s[i] = s[j] => i = j

\* C22: no event is twice in the queue, twice in a batch, in the queue and
\* in a batch, or in the batches of two tasks; no event is in two
\* successful sends or twice in one; and an event of a successful send is
\* neither in the queue nor in a batch.
C22_NoDuplicateData ==
    /\ NoDup(queue)
    /\ \A p \in Procs :
          /\ NoDup(batch[p])
          /\ Range(batch[p]) \cap Range(queue) = {}
          /\ Range(batch[p]) \cap Delivered = {}
          /\ \A q \in Procs \ {p} : Range(batch[p]) \cap Range(batch[q]) = {}
    /\ NoDup(DeliveredSeq)
    /\ Delivered \cap Range(queue) = {}

\* two flushes in flight together, each holding its own event
C22_Witness ==
    /\ pc[1] = "send" /\ op[1] = "flush" /\ batch[1] = <<1>>
    /\ pc[2] = "send" /\ op[2] = "flush" /\ batch[2] = <<2>>

\* ---------------------------------------------------------------- C23
\* the send of task p returns in this step
SendReturns(p) == pc[p] = "send" /\ pc'[p] # "send"

\* C23: a send whose exchange is a successful response carrying per-event
\* errors is a successful send: the batch is recorded as delivered, nothing
\* is requeued (the task does not go on to requeue, the queue is untouched)
\* and a caller's flush returns Ok.
C23_EventErrorsOutcome ==
    \A p \in Procs :
       (SendReturns(p) /\ exchange' = "accepted_with_errors")
          => /\ sent' = Append(sent, [via  |-> IF p = Timer THEN "tick" ELSE op[p],
                                      batch |-> batch[p]])
             /\ queue' = queue
             /\ batch'[p] = << >>
             /\ failed' = failed
             /\ IF p = Timer THEN pc'[p] = "tick"
                ELSE pc'[p] = "idle" /\ result'[p] = "Ok"

C23_EventErrorsAreNoFailure == [][C23_EventErrorsOutcome]_vars

\* flush() returned Ok on a response with per-event errors; nothing pending
C23_Witness ==
    /\ exchange = "accepted_with_errors"
    /\ ~failed
    /\ pc[1] = "idle" /\ op[1] = "flush" /\ result[1] = "Ok"
    /\ sent = <<[via |-> "flush", batch |-> <<1>>]>>
    /\ queue = << >>

\* ---------------------------------------------------------------- C24
\* C24: whichever way the exchange fails (no response, timeout, status
\* outside 2xx, body that cannot be deserialized), the send records nothing
\* as delivered and the task goes on to requeue its whole batch at the head
\* of the queue; then flush() returns the error and the tick goes back to
\* waiting.
C24_FailureOutcome ==
    \A p \in Procs :
       /\ (SendReturns(p) /\ exchange' \in Failures)
             => /\ pc'[p] = "requeue"
                /\ failed'
                /\ batch' = batch /\ queue' = queue /\ sent' = sent
                /\ result' = result
       /\ (pc[p] = "requeue" /\ pc'[p] # "requeue")
             => /\ queue' = batch[p] \o queue
                /\ sent' = sent
                /\ IF p = Timer THEN pc'[p] = "tick" /\ result' = result
                   ELSE pc'[p] = "idle" /\ result'[p] = "Transport"

C24_FailuresTreatedAlike ==
    /\ [][C24_FailureOutcome]_vars
    /\ [](\A p \in Procs : pc[p] = "requeue" => failed /\ batch[p] # << >>)

\* flush() failed on a body that could not be deserialized: batch requeued
C24_Witness ==
    /\ exchange = "body_not_json"
    /\ pc[1] = "idle" /\ op[1] = "flush" /\ result[1] = "Transport"
    /\ pc[Timer] = "tick"
    /\ sent = << >>
    /\ queue = <<1, 2>>

\* ---------------------------------------------------------------- C25
\* C25: when the send of the terminal flush fails, that shutdown() call
\* requeues the batch and returns the transport error: at its return the
\* queue holds the failed batch at its head (pending_event_count > 0), the
\* client is Shutdown, and the periodic task has ended (it saw the flag or
\* was aborted) with its handle taken.
C25_TerminalFailureOutcome ==
    \A c \in Callers :
       (op[c] = "shutdown" /\ pc[c] = "requeue" /\ pc'[c] # "requeue")
          => /\ pc'[c] = "idle"
             /\ result'[c] = "Transport"
             /\ teardownResult' = "Transport"
             /\ queue' = batch[c] \o queue
             /\ len(queue') > 0
             /\ is_shutdown'
             /\ pc'[Timer] \in {"stopped", "aborted"}
             /\ ~flush_handle'

C25_TerminalFailurePropagates ==
    /\ [][C25_TerminalFailureOutcome]_vars
    /\ [](\A c \in Callers :
            (op[c] = "shutdown" /\ pc[c] \in {"send", "requeue"})
               => /\ is_shutdown
                  /\ batch[c] # << >>
                  /\ pc[Timer] \in {"stopped", "aborted"})

\* shutdown() has returned the transport error; its batch is pending again
C25_Witness ==
    \E c \in Callers :
       /\ op[c] = "shutdown" /\ pc[c] = "idle" /\ result[c] = "Transport"
       /\ queue = <<1, 2>>
       /\ is_shutdown
       /\ pc[Timer] = "aborted"

TimerEnded == pc[Timer] \in {"stopped", "aborted"}

\* C27: the tick that finds the flag set ends the loop without touching the
\* queue or sending; once ended, the periodic task stays ended and holds no
\* batch; and after the flag is set the periodic task eventually ends.
C27_TickOutcome ==
    /\ (pc[Timer] = "tick" /\ is_shutdown /\ pc'[Timer] \notin {"tick", "aborted"})
          => /\ pc'[Timer] = "stopped"
             /\ queue' = queue /\ sent' = sent /\ batch' = batch
    /\ TimerEnded
          => /\ pc'[Timer] = pc[Timer]
             /\ batch'[Timer] = << >>

C27_TimerStopsAfterShutdown ==
    /\ [][C27_TickOutcome]_vars
    /\ is_shutdown ~> TimerEnded
    /\ [](TimerEnded => is_shutdown)

\* the loop ended at its own check of the flag, before shutdown() aborted it
C27_Witness ==
    /\ pc[Timer] = "stopped"
    /\ pc[1] = "take_handle"
    /\ flush_handle
    /\ queue = <<1>>

\* ---------------------------------------------------------------- C28
\* C28: when no call is in progress, the shutdown() that won has returned
\* Ok, no send has failed and the aborted task held no batch, every accepted
\* event has been delivered and the queue is empty.
C28_NoEventStrandedByShutdown ==
    (/\ \A c \in Callers : pc[c] = "idle"
     /\ teardownResult = "Ok"
     /\ ~failed
     /\ dropped = << >>)
        => /\ queue = << >>
           /\ Accepted \subseteq Delivered

\* ---------------------------------------------------------------- C29
\* no call of a caller is in progress and the periodic task is between ticks
\* or has ended
Quiescent ==
    /\ \A c \in Callers : pc[c] = "idle"
    /\ pc[Timer] \in {"tick", "stopped", "aborted"}

\* C29: as long as no send has failed, whenever no call and no tick is in
\* progress the queue holds fewer than max_batch_size events.
C29_BelowThresholdWhenQuiescent ==
    (Quiescent /\ ~failed) => len(queue) < MaxBatchSize

\* two callers enqueued concurrently; one of them flushed both events
C29_Witness ==
    /\ Quiescent /\ ~failed /\ ~is_shutdown
    /\ \A c \in Callers : op[c] = "enqueue" /\ result[c] = "Ok"
    /\ sent = <<[via |-> "enqueue", batch |-> <<1, 2>>]>>
    /\ queue = << >>

FlushesAfterShutdown(c) == is_shutdown /\ op[c] = "flush"

\* no task other than c is inside a delivery attempt or between the
\* lifecycle check and the enqueue of its call
OthersQuiet(c) ==
    \A p \in Procs \ {c} : ~InProgress(p) /\ pc[p] # "enqueue"

\* the steps of an explicit flush() in state Shutdown: the call is entered
\* like in state Active, a non-empty queue is drained whole into the batch
\* that is sent, and a successful send delivers that batch
C31_FlushNotGatedStep ==
    \A c \in Callers :
       /\ (is_shutdown /\ CallStarts(c, "flush"))
             => pc'[c] = "is_empty" /\ result'[c] = "none"
       /\ (FlushesAfterShutdown(c) /\ pc[c] = "is_empty" /\ pc'[c] # "is_empty"
              /\ queue # << >>)
             => pc'[c] = "drain"
       /\ (FlushesAfterShutdown(c) /\ pc[c] = "drain" /\ pc'[c] # "drain"
              /\ queue # << >>)
             => /\ pc'[c] = "send"
                /\ batch'[c] = queue
                /\ queue' = << >>
       /\ (FlushesAfterShutdown(c) /\ SendReturns(c) /\ result'[c] = "Ok")
             => /\ sent' = Append(sent, [via |-> "flush", batch |-> batch[c]])
                /\ pc'[c] = "idle"

\* in state Shutdown events leave the queue only in the drain of a flush or
\* of a delivery attempt in progress
C31_OnlyDrainsRemoveStep ==
    (is_shutdown /\ ~(Range(queue) \subseteq Range(queue')))
        => \E p \in Procs :
              /\ pc[p] = "drain" /\ pc'[p] # "drain"
              /\ queue' = << >>

\* C31, as claimed: in state Shutdown an explicit flush() is entered, drains
\* and sends a non-empty queue, and when its send succeeds the queue is
\* empty; events leave the queue only in drains.
C31_FlushAfterShutdownEmpties ==
    /\ [][C31_FlushNotGatedStep]_vars
    /\ [][C31_OnlyDrainsRemoveStep]_vars
    /\ [][\A c \in Callers :
             (FlushesAfterShutdown(c) /\ SendReturns(c) /\ result'[c] = "Ok")
                => queue' = << >>]_vars

\* in state Shutdown the queue grows only by the requeue of a delivery
\* attempt in progress or by the enqueue of a call that had passed its
\* lifecycle check
C31_GrowthStep ==
    (is_shutdown /\ queue' # queue /\ Range(queue) \subseteq Range(queue'))
        => \E p \in Procs :
              \/ pc[p] = "requeue" /\ queue' = batch[p] \o queue
              \/ pc[p] = "enqueue" /\ queue' = Append(queue, nextId)

\* C31, amended: in state Shutdown an explicit flush() is entered, drains
\* and sends a non-empty queue, leaving the queue empty at its drain; its
\* successful send delivers the batch and does not touch the queue, which
\* stays empty up to then while no other task is inside a delivery attempt
\* or an enqueue; events leave the queue only in drains, and enter it only
\* by a requeue or by the enqueue of a call in progress.
C31_FlushAfterShutdownDrains ==
    /\ [][C31_FlushNotGatedStep]_vars
    /\ [][C31_OnlyDrainsRemoveStep]_vars
    /\ [][C31_GrowthStep]_vars
    /\ [][\A c \in Callers :
             (FlushesAfterShutdown(c) /\ pc[c] = "send")
                => /\ (SendReturns(c) /\ result'[c] = "Ok") => queue' = queue
                   /\ (queue = << >> /\ OthersQuiet(c)) => queue' = << >>]_vars

\* after the terminal flush failed and requeued both events, an explicit
\* flush() delivered them and left the queue empty
C31_Witness ==
    \E c \in Callers :
       /\ is_shutdown /\ teardownResult = "Transport"
       /\ op[c] = "flush" /\ pc[c] = "idle" /\ result[c] = "Ok"
       /\ sent = <<[via |-> "flush", batch |-> <<1, 2>>]>>
       /\ queue = << >>

\* ---------------------------------------------------------------- C32
\* caller c is inside an enqueue call that found the queue at or above
\* max_batch_size: from its enqueue on, the events the call deals with (its
\* batch, then the queue) number more than max_batch_size
OverThreshold(c) ==
    /\ op[c] = "enqueue"
    /\ pc[c] \in {"should_flush", "is_empty", "drain", "send", "requeue"}
    /\ Len(batch[c] \o queue) > MaxBatchSize

\* the steps of an enqueue call of one sequential caller that finds the
\* queue at or above max_batch_size: the event is appended, the threshold
\* test sends the call into its flush, the drain takes the whole queue into
\* the one batch that is sent, and a failed send is followed by the requeue
\* and the return of the error, with no second send
C32_CallStep ==
    \A c \in Callers :
       /\ (pc[c] = "enqueue" /\ pc'[c] # "enqueue" /\ len(queue) >= MaxBatchSize)
             => /\ ~is_shutdown
                /\ queue' = Append(queue, nextId)
                /\ pc'[c] = "should_flush"
       /\ (OverThreshold(c) /\ pc[c] = "should_flush" /\ pc'[c] # pc[c])
             => pc'[c] = "is_empty" /\ queue' = queue
       /\ (OverThreshold(c) /\ pc[c] = "is_empty" /\ pc'[c] # pc[c])
             => pc'[c] = "drain" /\ queue' = queue
       /\ (OverThreshold(c) /\ pc[c] = "drain" /\ pc'[c] # pc[c])
             => /\ pc'[c] = "send"
                /\ batch'[c] = queue
                /\ Len(batch'[c]) > MaxBatchSize
                /\ batch'[c][Len(batch'[c])] = nextId - 1
                /\ queue' = << >>
       /\ (OverThreshold(c) /\ pc[c] = "send" /\ pc'[c] # pc[c])
             => \/ /\ pc'[c] = "requeue"
                   /\ failed'
                   /\ UNCHANGED <<queue, batch, sent>>
                \/ /\ pc'[c] = "idle" /\ result'[c] = "Ok"
                   /\ sent' = Append(sent, [via |-> "enqueue", batch |-> batch[c]])
                   /\ queue' = queue
       /\ (OverThreshold(c) /\ pc[c] = "requeue" /\ pc'[c] # pc[c])
             => /\ pc'[c] = "idle" /\ result'[c] = "Transport"
                /\ queue' = batch[c]
                /\ queue'[Len(queue')] = nextId - 1
                /\ SubSeq(queue', 1, Len(queue') - 1) = SubSeq(Undelivered, 1, Len(Undelivered) - 1)
                /\ sent' = sent

\* C32: for one sequential caller and no tick, every accepted event that no
\* send delivered stays pending, in enqueue order, in the batch being sent
\* or in the queue, so while sends fail the queue at each return holds all
\* of them and only grows; and an enqueue call made with the queue at or
\* above max_batch_size appends its event, makes one delivery attempt with
\* the whole queue and, when it fails, returns the error with the queue
\* equal to its previous contents followed by the new event.
C32_GrowsUnderFailure ==
    /\ [](/\ Serial
          /\ Pending = Undelivered
          /\ \A c \in Callers :
                pc[c] \in {"idle", "enqueue"} => batch[c] = << >>
          /\ ((\A c \in Callers : pc[c] = "idle") /\ sent = << >>)
                => queue = [i \in 1..(nextId - 1) |-> i])
    /\ [][C32_CallStep]_vars

\* after the failed size-triggered flush, two further enqueue calls each
\* failed in turn and the queue grew by their events
C32_Witness ==
    /\ pc[1] = "idle" /\ op[1] = "enqueue" /\ result[1] = "Transport"
    /\ ~is_shutdown
    /\ sent = << >>
    /\ queue = [i \in 1..(MaxBatchSize + 2) |-> i]

====
